---------------------------- MODULE Spec2Model ----------------------------
(***************************************************************************)
(* Model of the backup synchronisation and image de-duplication engine of  *)
(* GoldenRabbit (src/airtable_backup.py): the paginated view fetch, the    *)
(* content-hash change detector, the snapshot store, the duplicate cleaner *)
(* and the temp-file image download.                                       *)
(*                                                                         *)
(* JSON values are tagged tuples: <<"str", s>>, <<"num", n>>,              *)
(* <<"arr", seq>>, <<"obj", pairs>> where pairs is the sequence of         *)
(* <<key, value>> in insertion order (a Python dict keeps that order).     *)
(* The two Korean field names of the source are written in Latin letters   *)
(* (F_PHOTO, F_LINKS), string literals of the module being ASCII.          *)
(***************************************************************************)
EXTENDS Integers, Sequences, FiniteSets, TLC

VARIABLES
    pc,             \* position of the process in the code
    arg,            \* inputs of a pure function under check
    ret,            \* its outputs
    imgdir,         \* images/<record_id>/: whether it exists, and its files
    imgmeta,        \* images/image_metadata.json on disk
    records,        \* the argument of backup_property_images
    ri,             \* index of the record the image loop is at
    image_metadata, \* the metadata dict in memory
    stats,          \* the counters of backup_property_images
    cur,            \* locals of the record being processed
    faults,         \* failures the environment has injected so far
    requested,      \* log: download requests issued per record in this run
    clean_log,      \* log: the last call of clean_existing_duplicates
    undeleted,      \* log: per record, the files os.remove failed on in this run
    attempt,        \* log: the directory at the last download request, and its outcome
    api_key,        \* whether AIRTABLE_API_KEY is set
    snapshot,       \* the snapshot file of each view
    jobmeta,        \* metadata.json
    remote,         \* the pages the remote source serves for each view in this run
    run,            \* number of runs started
    vi,             \* index of the view the job is at
    offset,         \* the pagination cursor (0: none)
    view_records,   \* records fetched for the current view
    all_records,    \* records fetched for the view 'all'
    job,            \* total_records, success_count, total_changes, updated_views
    result,         \* what the last run returned
    handed,         \* log: per view, what this run handed to the change detector
    prev_handed,    \* log: the same for the run before
    written,        \* log: views whose snapshot file was written in this run
    snapshot0,      \* log: the snapshot files when the run started
    downloaded,     \* log: per record, the URL stored by a download of this run
    prev_downloaded \* log: the same for the run before

jobvars == <<api_key, snapshot, jobmeta, remote, run, vi, offset, view_records, all_records,
             job, result, handed, prev_handed, written, snapshot0, prev_downloaded>>
imgvars == <<imgdir, imgmeta, records, ri, image_metadata, stats, cur,
             requested, clean_log, undeleted, attempt, downloaded>>
vars == <<pc, arg, ret, faults, imgvars, jobvars>>

(***************************************************************************)
(* JSON values                                                             *)
(***************************************************************************)
Str(s) == <<"str", s>>
Num(n) == <<"num", n>>
Arr(s) == <<"arr", s>>
Obj(p) == <<"obj", p>>

IsObj(v) == v[1] = "obj"
IsArr(v) == v[1] = "arr"
IsStr(v) == v[1] = "str"

\* 대표사진 and 사진링크 (src/airtable_backup.py:341, 354)
F_PHOTO == "daepyosajin"
F_LINKS == "sajinlink"

\* The keys of the modelled documents in the order Python compares strings
\* (code points: ASCII first, then U+B300 of 대표사진, then U+C0AC of 사진링크).
KeyOrder == <<"fields", "filename", "id", "price", "url", F_PHOTO, F_LINKS>>

KeyRank(k) == CHOOSE i \in 1..Len(KeyOrder) : KeyOrder[i] = k

Keys(o) == {o[2][i][1] : i \in 1..Len(o[2])}

HasKey(o, k) == k \in Keys(o)

\* dict[k] of a key that is present
Get(o, k) == o[2][CHOOSE i \in 1..Len(o[2]) : o[2][i][1] = k][2]

\* record.get('id'): "" stands for None
RecordId(record) == IF HasKey(record, "id") THEN Get(record, "id")[2] ELSE ""

\* record.get('fields', {})
FieldsOf(record) == IF HasKey(record, "fields") THEN Get(record, "fields") ELSE Obj(<<>>)

RECURSIVE SortPairs(_)
\* sorted(d.items()) by key, as json.dumps(sort_keys=True) orders a dict
SortPairs(p) ==
    IF p = <<>> THEN <<>>
    ELSE LET m == CHOOSE i \in 1..Len(p) :
                     \A j \in 1..Len(p) : KeyRank(p[i][1]) <= KeyRank(p[j][1])
         IN  <<p[m]>> \o SortPairs(SubSeq(p, 1, m - 1) \o SubSeq(p, m + 1, Len(p)))

Quote(s) == "\"" \o s \o "\""

RECURSIVE Join(_)
\* items separated by "," tokens
Join(items) ==
    IF items = <<>> THEN <<>>
    ELSE IF Len(items) = 1 THEN items[1]
    ELSE items[1] \o <<",">> \o Join(Tail(items))

RECURSIVE json_dumps(_, _)
\* json.dumps(v, sort_keys=sort_keys): the text as its sequence of tokens
json_dumps(v, sort_keys) ==
    IF IsStr(v) THEN <<Quote(v[2])>>
    ELSE IF v[1] = "num" THEN <<ToString(v[2])>>
    ELSE IF IsArr(v)
    THEN <<"[">> \o Join([i \in 1..Len(v[2]) |-> json_dumps(v[2][i], sort_keys)]) \o <<"]">>
    ELSE LET p == IF sort_keys THEN SortPairs(v[2]) ELSE v[2]
         IN  <<"{">>
             \o Join([i \in 1..Len(p) |->
                        <<Quote(p[i][1]), ":">> \o json_dumps(p[i][2], sort_keys)])
             \o <<"}">>

\* hashlib.md5(...).hexdigest() as an ideal digest: collision-free, so a
\* digest is represented by the text it was computed from.
md5_hexdigest(text) == <<"md5", text>>

\* a hash of the text as the dict happens to be ordered
hash_without_sort_keys(data) == md5_hexdigest(json_dumps(data, FALSE))

calculate_data_hash(data) == md5_hexdigest(json_dumps(data, TRUE))

(***************************************************************************)
(* Texts.  A text the code inspects (a file name, a link field) is a       *)
(* sequence of symbols, one per character; StrOf gives the string a JSON   *)
(* document holds for it.                                                  *)
(***************************************************************************)
RECURSIVE StrOf(_)
StrOf(t) == IF t = <<>> THEN "" ELSE Head(t) \o StrOf(Tail(t))

UpperCase == <<"A", "B", "C", "D", "E", "F", "G", "H", "I", "J", "K", "L", "M",
               "N", "O", "P", "Q", "R", "S", "T", "U", "V", "W", "X", "Y", "Z">>
LowerCase == <<"a", "b", "c", "d", "e", "f", "g", "h", "i", "j", "k", "l", "m",
               "n", "o", "p", "q", "r", "s", "t", "u", "v", "w", "x", "y", "z">>
Digits == {"0", "1", "2", "3", "4", "5", "6", "7", "8", "9"}

\* str.lower()
lower(t) ==
    [i \in 1..Len(t) |->
        IF \E k \in 1..26 : UpperCase[k] = t[i]
        THEN LowerCase[CHOOSE k \in 1..26 : UpperCase[k] = t[i]]
        ELSE t[i]]

\* c.isalnum() on the ASCII symbols of the model
isalnum(c) ==
    \/ c \in Digits
    \/ \E k \in 1..26 : c = UpperCase[k] \/ c = LowerCase[k]

\* kw in t
Contains(t, kw) == \E i \in 1..(Len(t) - Len(kw) + 1) : SubSeq(t, i, i + Len(kw) - 1) = kw

startswith(t, kw) == Len(t) >= Len(kw) /\ SubSeq(t, 1, Len(kw)) = kw

endswith(t, kw) == Len(t) >= Len(kw) /\ SubSeq(t, Len(t) - Len(kw) + 1, Len(t)) = kw

FN_IMG2024 == <<"I", "M", "G", "_", "2", "0", "2", "4", ".", "j", "p", "g">>
FN_REP1 == <<"r", "e", "p", "r", "e", "s", "e", "n", "t", "a", "t", "i", "v", "e", "_", "1", ".", "j", "p", "g">>
FN_HOUSE == <<"h", "o", "u", "s", "e", ".", "j", "p", "g">>
FN_HOUSE_UP == <<"H", "O", "U", "S", "E", ".", "J", "P", "G">>
FN_PHOTO1 == <<"p", "h", "o", "t", "o", "_", "1", ".", "j", "p", "g">>
FN_PHOTO_LINK1 == <<"p", "h", "o", "t", "o", "_", "l", "i", "n", "k", "_", "1", ".", "j", "p", "g">>
FN_PHOTO_LINK2 == <<"p", "h", "o", "t", "o", "_", "l", "i", "n", "k", "_", "2", ".", "j", "p", "g">>
FN_A_HEIC == <<"a", ".", "h", "e", "i", "c">>
FN_B_HEIC == <<"b", ".", "h", "e", "i", "c">>
FN_NOTES == <<"n", "o", "t", "e", "s", ".", "t", "x", "t">>

FN_SPACED == <<"m", "y", " ", "p", "h", "o", "t", "o", ".", "j", "p", "g">>
FN_BANG == <<"!", "!", ".", "j", "p", "g">>
FN_NOEXT == <<"p", "l", "a", "n">>
STAMP_PLAIN == <<"1", "7", "6", "2", "0", "0", "0", "0", "0", "0">>
STAMP_202 == <<"1", "7", "2", "0", "2", "0", "0", "0", "0", "0">>

KW_202 == <<"2", "0", "2">>
KW_KAKAO == <<"k", "a", "k", "a", "o">>
KW_IMG == <<"i", "m", "g", "_">>
KW_DSC == <<"d", "s", "c", "_">>
KW_PHOTO_202 == <<"p", "h", "o", "t", "o", "_", "2", "0", "2">>
KW_REPRESENTATIVE == <<"r", "e", "p", "r", "e", "s", "e", "n", "t", "a", "t", "i", "v", "e">>
KW_PHOTO == <<"p", "h", "o", "t", "o", "_">>

EXT_JPG == <<".", "j", "p", "g">>
EXT_JPEG == <<".", "j", "p", "e", "g">>
EXT_PNG == <<".", "p", "n", "g">>
EXT_GIF == <<".", "g", "i", "f">>
EXT_WEBP == <<".", "w", "e", "b", "p">>
EXT_TMP == <<".", "t", "m", "p">>

OriginalKeywords == {KW_202, KW_KAKAO, KW_IMG, KW_DSC, KW_PHOTO_202}
ImageExtensions == {EXT_JPG, EXT_JPEG, EXT_PNG, EXT_GIF, EXT_WEBP}

\* a generated photo_ name longer than this counts as a meaningful name
PhotoNameMaxLen == 15

\* files of at most this many bytes are not images (cleaner and download)
MinImageBytes == 1000

\* the first component of get_image_priority(filename)
PriorityClass(filename) ==
    LET filename_lower == lower(filename)
    IN  IF \E keyword \in OriginalKeywords : Contains(filename_lower, keyword) THEN 1
        ELSE IF Contains(filename_lower, KW_REPRESENTATIVE) THEN 2
        ELSE IF ~startswith(filename_lower, KW_PHOTO) \/ Len(filename) > PhotoNameMaxLen THEN 3
        ELSE 4

get_image_priority(filename) == <<PriorityClass(filename), Len(filename)>>

\* the filter of clean_existing_duplicates: a recognised extension and more
\* than 1000 bytes
IsValidImage(f) ==
    /\ \E ext \in ImageExtensions : endswith(lower(f.name), ext)
    /\ f.size > MinImageBytes

(***************************************************************************)
(* The image tree and the duplicate cleaner                                *)
(***************************************************************************)
RecordIds == {"recA", "recB"}

\* a file of a record directory: its name, its size in bytes and what its
\* bytes are ("seed": there before the run, a URL: that URL's whole payload,
\* "partial": the head of a payload)
File(name, size, data) == [name |-> name, size |-> size, data |-> data]

NoDir == [exists |-> FALSE, files |-> {}]

Names(files) == {f.name : f \in files}

\* os.listdir: the files in any order
Listings(files) ==
    {l \in [1..Cardinality(files) -> files] : \A i, j \in DOMAIN l : l[i] = l[j] => i = j}

RECURSIVE SelectFiles(_)
\* the loop of lines 280-290: the valid images, in listing order
SelectFiles(listing) ==
    IF listing = <<>> THEN <<>>
    ELSE (IF IsValidImage(Head(listing)) THEN <<Head(listing)>> ELSE <<>>)
         \o SelectFiles(Tail(listing))

\* the sort key with the size not negated: smaller files first
KeyBySizeAscending(a, b) ==
    \/ PriorityClass(a.name) < PriorityClass(b.name)
    \/ PriorityClass(a.name) = PriorityClass(b.name) /\ a.size <= b.size

\* key=lambda x: (x['priority'][0], -x['size'])
KeyLE(a, b) ==
    \/ PriorityClass(a.name) < PriorityClass(b.name)
    \/ PriorityClass(a.name) = PriorityClass(b.name) /\ a.size >= b.size

RECURSIVE SortFiles(_)
\* list.sort: stable, so of several files with the least key the first in
\* listing order comes first
SortFiles(l) ==
    IF l = <<>> THEN <<>>
    ELSE LET IsMin(i) == \A j \in 1..Len(l) : KeyLE(l[i], l[j])
             m == CHOOSE i \in 1..Len(l) : IsMin(i) /\ \A j \in 1..(i - 1) : ~IsMin(j)
         IN  <<l[m]>> \o SortFiles(SubSeq(l, 1, m - 1) \o SubSeq(l, m + 1, Len(l)))

\* a cleaner whose deletion list starts one element too early
clean_deleting_all(dir, listing, failing) ==
    LET existing_files == SortFiles(SelectFiles(listing))
    IN  IF ~dir.exists \/ existing_files = <<>>
        THEN [best |-> <<>>, deleted_count |-> 0, files |-> dir.files, failed |-> {}]
        ELSE LET files_to_delete == {existing_files[i] : i \in 1..Len(existing_files)}
                 deleted == {f \in files_to_delete : f.name \notin failing}
             IN  [best |-> existing_files[1].name,
                  deleted_count |-> Cardinality(deleted),
                  files |-> dir.files \ deleted,
                  failed |-> Names(files_to_delete \ deleted)]

\* clean_existing_duplicates(record_image_dir, record_id) on a directory
\* listed as `listing`, os.remove failing for the names in `failing`:
\* the filename returned (<<>> for None), the count returned and the files left
clean_existing_duplicates(dir, listing, failing) ==
    LET existing_files == SortFiles(SelectFiles(listing))
    IN  IF ~dir.exists \/ existing_files = <<>>
        THEN [best |-> <<>>, deleted_count |-> 0, files |-> dir.files, failed |-> {}]
        ELSE LET best_file == existing_files[1]
                 files_to_delete == {existing_files[i] : i \in 2..Len(existing_files)}
                 deleted == {f \in files_to_delete : f.name \notin failing}
             IN  [best |-> best_file.name,
                  deleted_count |-> Cardinality(deleted),
                  files |-> dir.files \ deleted,
                  failed |-> Names(files_to_delete \ deleted)]

(***************************************************************************)
(* Image candidates of a record                                            *)
(***************************************************************************)
\* the URLs of the model, each one symbol of a text
URL_A1 == "http://att/1"
URL_A2 == "http://att/2"
URL_L1 == "http://link/1"
URL_L2 == "http://link/2"
URL_FTP == "ftp://link/3"

HttpUrls == {URL_A1, URL_A2, URL_L1, URL_L2}
Urls == HttpUrls \cup {URL_FTP}

\* the link fields of the model, as texts
LINKS_1 == <<URL_L1>>
LINKS_2 == <<URL_L2, ",", " ", URL_L1>>
LINKS_FTP == <<URL_FTP, ",", URL_A1>>

\* the texts a record can hold: CharsOf reads a string of a document back
\* as the text the code then inspects
TextPool == {FN_IMG2024, FN_REP1, FN_HOUSE, FN_HOUSE_UP, FN_PHOTO1, FN_A_HEIC, FN_B_HEIC,
             FN_NOTES, FN_SPACED, FN_BANG, FN_NOEXT,
             LINKS_1, LINKS_2, LINKS_FTP}

CharsOf(s) == CHOOSE t \in TextPool : StrOf(t) = s

RECURSIVE SplitComma(_, _)
\* text.split(','), `acc` being the segment read so far
SplitComma(t, acc) ==
    IF t = <<>> THEN <<acc>>
    ELSE IF Head(t) = "," THEN <<acc>> \o SplitComma(Tail(t), <<>>)
    ELSE SplitComma(Tail(t), Append(acc, Head(t)))

RECURSIVE strip(_)
\* str.strip() for the blank of the model
strip(t) ==
    IF t # <<>> /\ Head(t) = " " THEN strip(Tail(t))
    ELSE IF t # <<>> /\ t[Len(t)] = " " THEN strip(SubSeq(t, 1, Len(t) - 1))
    ELSE t

\* link.startswith('http')
StartsWithHttp(t) == t # <<>> /\ Head(t) \in HttpUrls

KW_REPRESENTATIVE_ == KW_REPRESENTATIVE \o <<"_">>
KW_PHOTO_LINK_ == KW_PHOTO \o <<"l", "i", "n", "k", "_">>
KW_IMAGE_ == <<"i", "m", "a", "g", "e", "_">>

Candidate(url, filename, type, priority) ==
    [url |-> url, filename |-> filename, type |-> type, priority |-> priority]

RECURSIVE AttachmentCandidates(_, _, _)
\* lines 341-351: the attachments that have a URL not seen before
AttachmentCandidates(atts, i, processed_urls) ==
    IF i > Len(atts) THEN <<>>
    ELSE LET attachment == atts[i]
             url == IF HasKey(attachment, "url") THEN Get(attachment, "url")[2] ELSE ""
         IN  IF url # "" /\ url \notin processed_urls
             THEN <<Candidate(url,
                              IF HasKey(attachment, "filename")
                              THEN CharsOf(Get(attachment, "filename")[2])
                              ELSE KW_REPRESENTATIVE_ \o <<ToString(i)>> \o EXT_JPG,
                              "representative", 1)>>
                  \o AttachmentCandidates(atts, i + 1, processed_urls \cup {url})
             ELSE AttachmentCandidates(atts, i + 1, processed_urls)

RECURSIVE LinkCandidates(_, _, _)
\* lines 354-365: the http links not seen before
LinkCandidates(photo_links, i, processed_urls) ==
    IF i > Len(photo_links) THEN <<>>
    ELSE LET link == strip(photo_links[i])
         IN  IF StartsWithHttp(link) /\ StrOf(link) \notin processed_urls
             THEN <<Candidate(StrOf(link), KW_PHOTO_LINK_ \o <<ToString(i)>> \o EXT_JPG,
                              "link", 2)>>
                  \o LinkCandidates(photo_links, i + 1, processed_urls \cup {StrOf(link)})
             ELSE LinkCandidates(photo_links, i + 1, processed_urls)

\* a resolver that reads the link field before the attachment field
ImageUrlsLinksFirst(fields) ==
    LET fromLinks ==
            IF HasKey(fields, F_LINKS) /\ Get(fields, F_LINKS)[2] # ""
            THEN LinkCandidates(SplitComma(CharsOf(Get(fields, F_LINKS)[2]), <<>>), 1, {})
            ELSE <<>>
        seen == {fromLinks[i].url : i \in 1..Len(fromLinks)}
        fromAttachments ==
            IF HasKey(fields, F_PHOTO) /\ IsArr(Get(fields, F_PHOTO))
            THEN AttachmentCandidates(Get(fields, F_PHOTO)[2], 1, seen)
            ELSE <<>>
    IN  fromLinks \o fromAttachments

\* image_urls of lines 337-365, in the order of line 372 (a stable sort by
\* priority of a list that is already in priority order)
ImageUrls(fields) ==
    LET fromAttachments ==
            IF HasKey(fields, F_PHOTO) /\ IsArr(Get(fields, F_PHOTO))
            THEN AttachmentCandidates(Get(fields, F_PHOTO)[2], 1, {})
            ELSE <<>>
        seen == {fromAttachments[i].url : i \in 1..Len(fromAttachments)}
        fromLinks ==
            IF HasKey(fields, F_LINKS) /\ Get(fields, F_LINKS)[2] # ""
            THEN LinkCandidates(SplitComma(CharsOf(Get(fields, F_LINKS)[2]), <<>>), 1, seen)
            ELSE <<>>
    IN  fromAttachments \o fromLinks

\* the truth value Python gives a JSON value
Truthy(v) ==
    IF v[1] = "num" THEN v[2] # 0
    ELSE IF v[1] = "str" THEN v[2] # ""
    ELSE v[2] # <<>>

\* lines 341-358 raise AttributeError on fields of another shape than
\* expected: an attachment that is no object has no .get (line 343), a link
\* field that is no string has no .split (line 355)
CandidatesRaise(fields) ==
    \/ /\ HasKey(fields, F_PHOTO)
       /\ IsArr(Get(fields, F_PHOTO))
       /\ \E i \in 1..Len(Get(fields, F_PHOTO)[2]) : ~IsObj(Get(fields, F_PHOTO)[2][i])
    \/ /\ HasKey(fields, F_LINKS)
       /\ Truthy(Get(fields, F_LINKS))
       /\ ~IsStr(Get(fields, F_LINKS))

\* lines 382-391: the name the download is stored under; `stamp` is the
\* text of int(time.time())
RECURSIVE Sanitize(_)
Sanitize(t) ==
    IF t = <<>> THEN <<>>
    ELSE (IF isalnum(Head(t)) \/ Head(t) \in {".", "-", "_"} THEN <<Head(t)>> ELSE <<>>)
         \o Sanitize(Tail(t))

StoredFilename(original, stamp) ==
    LET original_filename == IF Contains(original, <<".">>) THEN original
                             ELSE original \o EXT_JPG
        filename == Sanitize(original_filename)
    IN  IF filename = <<>> \/ filename = EXT_JPG
        THEN KW_IMAGE_ \o stamp \o EXT_JPG
        ELSE filename

\* the last part of the path of a URL, the fallback of line 382
UrlLastPart(url) ==
    IF url \in {URL_A1, URL_L1} THEN <<"1">>
    ELSE IF url \in {URL_A2, URL_L2} THEN <<"2">>
    ELSE <<"3">>

TimeStamps == {STAMP_PLAIN, STAMP_202}

(***************************************************************************)
(* Views and the snapshot store                                            *)
(***************************************************************************)
\* VIEWS, in the order the job iterates over it
VIEWS == <<"all", "reconstruction", "high_yield", "low_cost">>
ViewNames == {VIEWS[i] : i \in 1..Len(VIEWS)}

\* a file that does not exist, one that json.load cannot parse, and a
\* document (json.dump followed by json.load gives back the value written,
\* the order of the keys included)
NoFile == <<"nofile">>
Corrupt == <<"corrupt">>
Doc(v) == <<"doc", v>>

\* nothing fetched for a view yet in this run
NotHanded == [fetch |-> "none", list |-> <<>>, compared |-> FALSE, pages |-> <<>>]

NoJob == [total_records |-> 0, success_count |-> 0, total_changes |-> 0,
          updated_views |-> <<>>]

None == <<"none">>

\* a loader that gives an empty list for a file it cannot read
load_or_empty(file) == IF file[1] = "doc" THEN file[2] ELSE Arr(<<>>)

\* load_previous_data(filename): the document of a file that exists and can
\* be parsed, None for a missing file and for one json.load raises on
load_previous_data(file) == IF file[1] = "doc" THEN file[2] ELSE None

\* previous_data is not None (line 83)
HasPrevious(file) == load_previous_data(file) # None

RECURSIVE ById(_, _)
\* {record.get('id'): record for record in data}: the last record of each id
ById(data, id) ==
    IF data = <<>> THEN <<>>
    ELSE IF RecordId(data[Len(data)]) = id THEN <<data[Len(data)]>>
    ELSE ById(SubSeq(data, 1, Len(data) - 1), id)

IdsOf(data) == {RecordId(data[i]) : i \in 1..Len(data)}

\* a detector that rewrites the snapshot whatever the hashes
\* a detector that writes only when the breakdown counts a change
compare_gated_by_breakdown(new_data, file) ==
    IF ~HasPrevious(file)
    THEN [was_updated |-> TRUE, record_count |-> Len(new_data), changes |-> 0,
          final_count |-> Len(new_data), file |-> Doc(Arr(new_data)),
          added_count |-> 0, removed_count |-> 0, modified_count |-> 0]
    ELSE LET previous_data == load_previous_data(file)[2]
             new_ids == IdsOf(new_data)
             previous_ids == IdsOf(previous_data)
             added_count == Cardinality(new_ids \ previous_ids)
             removed_count == Cardinality(previous_ids \ new_ids)
             modified_count ==
                 Cardinality({id \in new_ids \cap previous_ids :
                     calculate_data_hash(ById(new_data, id)[1])
                     # calculate_data_hash(ById(previous_data, id)[1])})
             changes == added_count + removed_count + modified_count
         IN  IF changes = 0
             THEN [was_updated |-> FALSE, record_count |-> Len(new_data), changes |-> 0,
                   final_count |-> 0, file |-> file,
                   added_count |-> 0, removed_count |-> 0, modified_count |-> 0]
             ELSE [was_updated |-> TRUE, record_count |-> Len(new_data),
                   changes |-> changes,
                   final_count |-> Len(new_data), file |-> Doc(Arr(new_data)),
                   added_count |-> added_count, removed_count |-> removed_count,
                   modified_count |-> modified_count]

compare_and_always_update(new_data, file) ==
    [was_updated |-> TRUE, record_count |-> Len(new_data), changes |-> 0,
     final_count |-> Len(new_data), file |-> Doc(Arr(new_data)),
     added_count |-> 0, removed_count |-> 0, modified_count |-> 0]

\* compare_and_update_data(new_data, view_name, filename) with the snapshot
\* file as `file`: the four values returned, the file afterwards and the
\* three counts logged at line 111
compare_and_update_data(new_data, file) ==
    LET new_hash == calculate_data_hash(Arr(new_data))
    IN  IF ~HasPrevious(file)
        THEN [was_updated |-> TRUE, record_count |-> Len(new_data), changes |-> 0,
              final_count |-> Len(new_data), file |-> Doc(Arr(new_data)),
              added_count |-> 0, removed_count |-> 0, modified_count |-> 0]
        ELSE LET previous_data == load_previous_data(file)[2]
                 previous_hash == calculate_data_hash(load_previous_data(file))
             IN  IF new_hash = previous_hash
                 THEN [was_updated |-> FALSE, record_count |-> Len(new_data), changes |-> 0,
                       final_count |-> 0, file |-> file,
                       added_count |-> 0, removed_count |-> 0, modified_count |-> 0]
                 ELSE LET new_ids == IdsOf(new_data)
                          previous_ids == IdsOf(previous_data)
                          added_count == Cardinality(new_ids \ previous_ids)
                          removed_count == Cardinality(previous_ids \ new_ids)
                          modified_count ==
                              Cardinality({id \in new_ids \cap previous_ids :
                                  calculate_data_hash(ById(new_data, id)[1])
                                  # calculate_data_hash(ById(previous_data, id)[1])})
                      IN  [was_updated |-> TRUE, record_count |-> Len(new_data),
                           changes |-> added_count + removed_count + modified_count,
                           final_count |-> Len(new_data), file |-> Doc(Arr(new_data)),
                           added_count |-> added_count, removed_count |-> removed_count,
                           modified_count |-> modified_count]

(***************************************************************************)
(* backup_property_images                                                  *)
(***************************************************************************)
\* failures the environment may inject in one behaviour
MaxFaults == 1

\* response.iter_content(chunk_size=8192)
ChunkBytes == 8192

\* sizes of the payloads a download can deliver
PayloadSizes == {1000, 1001, 20000}

NoHash == <<>>
NoMeta == [hash |-> NoHash, filename |-> <<>>, type |-> "", optimized |-> FALSE]
EmptyMetadata == [r \in RecordIds |-> NoMeta]

ZeroStats == [new_images |-> 0, updated_images |-> 0, skipped_images |-> 0,
              error_images |-> 0, cleaned_duplicates |-> 0]

NoCur == [record_id |-> "", best |-> <<>>, url |-> "", filename |-> <<>>,
          img_type |-> "", prev_hash |-> NoHash, payload |-> 0]

NoCleanLog == [record_id |-> "", before |-> {}, best |-> <<>>, deleted_count |-> 0,
               failed |-> {}]
NoAttempt == [record_id |-> "", before |-> {}, outcome |-> "none"]

WithoutName(files, name) == {f \in files : f.name # name}

Bump(counter) == [stats EXCEPT ![counter] = @ + 1]

\* lines 232-251: load image_metadata.json (an unreadable file gives {})
ImgBegin ==
    /\ pc = "img_begin"
    /\ image_metadata' = IF imgmeta[1] = "doc" THEN imgmeta[2] ELSE EmptyMetadata
    /\ stats' = ZeroStats
    /\ ri' = 1
    /\ cur' = NoCur
    /\ pc' = "img_loop"
    /\ UNCHANGED <<arg, ret, faults, imgdir, imgmeta, records, requested, clean_log, undeleted, attempt>>
    /\ UNCHANGED <<jobvars, downloaded>>

\* lines 313-322: the next record; its directory is created before anything
\* is known about its images.  os.makedirs can raise (line 322, outside the
\* try of line 378), which ends the run.
ImgNextRecord ==
    /\ pc = "img_loop"
    /\ ri <= Len(records)
    /\ LET record_id == RecordId(records[ri])
       IN  \/ /\ IF record_id = ""
                 THEN /\ ri' = ri + 1
                      /\ UNCHANGED <<pc, imgdir, cur>>
                 ELSE /\ imgdir' = [imgdir EXCEPT ![record_id].exists = TRUE]
                      /\ cur' = [NoCur EXCEPT !.record_id = record_id]
                      /\ pc' = "img_clean"
                      /\ UNCHANGED ri
              /\ UNCHANGED faults
           \/ /\ record_id # ""
              /\ faults < MaxFaults
              /\ faults' = faults + 1
              /\ cur' = [NoCur EXCEPT !.record_id = record_id]
              /\ pc' = "crashed"
              /\ UNCHANGED <<ri, imgdir>>
    /\ UNCHANGED <<arg, ret, imgmeta, records, image_metadata, stats,
                   requested, clean_log, undeleted, attempt>>
    /\ UNCHANGED <<jobvars, downloaded>>

\* lines 324-326: the call of clean_existing_duplicates
CleanExistingDuplicates ==
    /\ pc = "img_clean"
    /\ \E listing \in Listings(imgdir[cur.record_id].files) :
       \E failing \in {n \in SUBSET Names(imgdir[cur.record_id].files) :
                           faults + Cardinality(n) <= MaxFaults} :
       \E r \in {clean_existing_duplicates(imgdir[cur.record_id], listing, failing)} :
              /\ failing = r.failed
              /\ faults' = faults + Cardinality(failing)
              /\ imgdir' = [imgdir EXCEPT ![cur.record_id].files = r.files]
              /\ cur' = [cur EXCEPT !.best = r.best]
              /\ stats' = [stats EXCEPT !.cleaned_duplicates = @ + r.deleted_count]
              /\ clean_log' = [record_id |-> cur.record_id,
                               before |-> imgdir[cur.record_id].files,
                               best |-> r.best, deleted_count |-> r.deleted_count,
                               failed |-> r.failed]
              /\ undeleted' = [undeleted EXCEPT ![cur.record_id] = @ \cup r.failed]
    /\ pc' = "img_pick"
    /\ UNCHANGED <<arg, ret, imgmeta, records, ri, image_metadata, requested, attempt>>
    /\ UNCHANGED <<jobvars, downloaded>>

\* lines 328-405: keep the existing file, or resolve the candidates and
\* decide whether the first one has to be downloaded.  The try statement
\* starts at line 378: an error raised by lines 337-365 leaves
\* backup_property_images and, its call at line 199 being outside any try,
\* backup_airtable_data as well.
ImgPick ==
    /\ pc = "img_pick"
    /\ LET record_id == cur.record_id
           image_urls == ImageUrls(FieldsOf(records[ri]))
       IN  IF cur.best # <<>>
           THEN /\ image_metadata' = [image_metadata EXCEPT
                                         ![record_id].optimized = TRUE,
                                         ![record_id].filename = cur.best]
                /\ stats' = Bump("skipped_images")
                /\ ri' = ri + 1
                /\ pc' = "img_loop"
                /\ UNCHANGED cur
           ELSE IF CandidatesRaise(FieldsOf(records[ri]))
           THEN /\ pc' = "crashed"
                /\ UNCHANGED <<image_metadata, stats, cur, ri>>
           ELSE IF image_urls = <<>>
           THEN /\ ri' = ri + 1
                /\ pc' = "img_loop"
                /\ UNCHANGED <<image_metadata, stats, cur>>
           ELSE \E stamp \in TimeStamps :
                LET img_info == image_urls[1]
                    filename == StoredFilename(IF img_info.filename # <<>>
                                               THEN img_info.filename
                                               ELSE UrlLastPart(img_info.url), stamp)
                    url_hash == md5_hexdigest(img_info.url)
                    prev_hash == image_metadata[record_id].hash
                IN  IF filename \in Names(imgdir[record_id].files) /\ prev_hash = url_hash
                    THEN /\ stats' = Bump("skipped_images")
                         /\ ri' = ri + 1
                         /\ pc' = "img_loop"
                         /\ UNCHANGED <<image_metadata, cur>>
                    ELSE /\ cur' = [cur EXCEPT !.url = img_info.url,
                                               !.filename = filename,
                                               !.img_type = img_info.type,
                                               !.prev_hash = prev_hash]
                         /\ pc' = "img_request"
                         /\ UNCHANGED <<image_metadata, stats, ri>>
    /\ UNCHANGED <<arg, ret, faults, imgdir, imgmeta, records, requested, clean_log, undeleted, attempt>>
    /\ UNCHANGED <<jobvars, downloaded>>

\* a request that is issued again after a failure
ImgRequestRetrying ==
    /\ pc = "img_request"
    /\ requested' = [requested EXCEPT ![cur.record_id] = @ + 1]
    /\ \/ /\ \E size \in PayloadSizes : cur' = [cur EXCEPT !.payload = size]
          /\ attempt' = [record_id |-> cur.record_id,
                         before |-> imgdir[cur.record_id].files, outcome |-> "pending"]
          /\ pc' = "img_stream"
          /\ UNCHANGED <<faults, stats, ri>>
       \/ /\ faults < MaxFaults
          /\ faults' = faults + 1
          /\ \E how \in {"status", "raised"} :
                attempt' = [record_id |-> cur.record_id,
                            before |-> imgdir[cur.record_id].files, outcome |-> how]
          /\ stats' = Bump("error_images")
          /\ pc' = "img_request"
          /\ UNCHANGED <<cur, ri>>
    /\ UNCHANGED <<arg, ret, imgdir, imgmeta, records, image_metadata, clean_log, undeleted>>
    /\ UNCHANGED <<jobvars, downloaded>>

\* line 409: requests.get(url, timeout=30, stream=True).  The answer is 200
\* with a payload, another status (line 442) or a raised error (line 445).
ImgRequest ==
    /\ pc = "img_request"
    /\ requested' = [requested EXCEPT ![cur.record_id] = @ + 1]
    /\ \/ /\ \E size \in PayloadSizes : cur' = [cur EXCEPT !.payload = size]
          /\ attempt' = [record_id |-> cur.record_id,
                         before |-> imgdir[cur.record_id].files, outcome |-> "pending"]
          /\ pc' = "img_stream"
          /\ UNCHANGED <<faults, stats, ri>>
       \/ /\ faults < MaxFaults
          /\ faults' = faults + 1
          /\ \E how \in {"status", "raised"} :
                attempt' = [record_id |-> cur.record_id,
                            before |-> imgdir[cur.record_id].files, outcome |-> how]
          /\ stats' = Bump("error_images")
          /\ ri' = ri + 1
          /\ pc' = "img_loop"
          /\ UNCHANGED cur
    /\ UNCHANGED <<arg, ret, imgdir, imgmeta, records, image_metadata, clean_log, undeleted>>
    /\ UNCHANGED <<jobvars, downloaded>>

\* a download written straight under the final filename
SameName(filename) == filename

\* line 413: temp_path = image_path + '.tmp'
TempName(filename) == filename \o EXT_TMP

\* lines 413-417: the payload is written to <image_path>.tmp chunk by chunk;
\* an error raised between two chunks leaves the chunks written so far
ImgStream ==
    /\ pc = "img_stream"
    /\ LET record_id == cur.record_id
           temp == TempName(cur.filename)
           others == WithoutName(imgdir[record_id].files, temp)
       IN  \/ /\ imgdir' = [imgdir EXCEPT ![record_id].files =
                               others \cup {File(temp, cur.payload, cur.url)}]
              /\ pc' = "img_validate"
              /\ UNCHANGED <<faults, stats, ri, attempt>>
           \/ /\ faults < MaxFaults
              /\ faults' = faults + 1
              /\ \E chunks \in 0..2 :
                    /\ chunks * ChunkBytes < cur.payload
                    /\ imgdir' = [imgdir EXCEPT ![record_id].files =
                                     others \cup {File(temp, chunks * ChunkBytes, "partial")}]
              /\ attempt' = [attempt EXCEPT !.outcome = "stream_error"]
              /\ stats' = Bump("error_images")
              /\ ri' = ri + 1
              /\ pc' = "img_loop"
    /\ UNCHANGED <<arg, ret, imgmeta, records, image_metadata, cur, requested, clean_log, undeleted>>
    /\ UNCHANGED <<jobvars, downloaded>>

\* lines 420-440: a payload of more than 1000 bytes is renamed into place and
\* recorded, a smaller one is removed
ImgValidate ==
    /\ pc = "img_validate"
    /\ LET record_id == cur.record_id
           files == imgdir[record_id].files
           temp == CHOOSE f \in files : f.name = TempName(cur.filename)
       IN  IF temp.size > MinImageBytes
           THEN /\ imgdir' = [imgdir EXCEPT ![record_id].files =
                                 WithoutName(files \ {temp}, cur.filename)
                                 \cup {File(cur.filename, temp.size, temp.data)}]
                /\ image_metadata' = [image_metadata EXCEPT ![record_id] =
                                         [hash |-> md5_hexdigest(cur.url),
                                          filename |-> cur.filename,
                                          type |-> cur.img_type,
                                          optimized |-> TRUE]]
                /\ stats' = IF cur.prev_hash # NoHash THEN Bump("updated_images")
                            ELSE Bump("new_images")
                /\ attempt' = [attempt EXCEPT !.outcome = "stored"]
                /\ downloaded' = [downloaded EXCEPT ![record_id] = cur.url]
           ELSE /\ imgdir' = [imgdir EXCEPT ![record_id].files = files \ {temp}]
                /\ stats' = Bump("error_images")
                /\ attempt' = [attempt EXCEPT !.outcome = "too_small"]
                /\ UNCHANGED <<image_metadata, downloaded>>
    /\ ri' = ri + 1
    /\ pc' = "img_loop"
    /\ UNCHANGED <<arg, ret, faults, imgmeta, records, cur, requested, clean_log, undeleted>>
    /\ UNCHANGED jobvars

\* lines 449-478: the loop is over; the metadata document is written
ImgSave ==
    /\ pc = "img_loop"
    /\ ri > Len(records)
    /\ imgmeta' = <<"doc", image_metadata>>
    /\ pc' = "img_return"
    /\ UNCHANGED <<arg, ret, faults, imgdir, records, ri, image_metadata, stats, cur,
                   requested, clean_log, undeleted, attempt>>
    /\ UNCHANGED <<jobvars, downloaded>>

ImagesIdle ==
    /\ imgdir = [r \in RecordIds |-> NoDir]
    /\ imgmeta = <<"nofile">>
    /\ records = <<>>
    /\ ri = 0
    /\ image_metadata = EmptyMetadata
    /\ stats = ZeroStats
    /\ cur = NoCur
    /\ requested = [r \in RecordIds |-> 0]
    /\ clean_log = NoCleanLog
    /\ undeleted = [r \in RecordIds |-> {}]
    /\ attempt = NoAttempt
    /\ downloaded = [r \in RecordIds |-> ""]

JobIdle ==
    /\ snapshot = [v \in ViewNames |-> NoFile]
    /\ jobmeta = NoFile
    /\ remote = [v \in ViewNames |-> <<>>]
    /\ run = 0
    /\ vi = 0
    /\ offset = 0
    /\ view_records = <<>>
    /\ all_records = <<>>
    /\ job = NoJob
    /\ result = "none"
    /\ handed = [v \in ViewNames |-> NotHanded]
    /\ prev_handed = [v \in ViewNames |-> NotHanded]
    /\ written = {}
    /\ snapshot0 = [v \in ViewNames |-> NoFile]
    /\ prev_downloaded = [r \in RecordIds |-> ""]

(***************************************************************************)
(* backup_property_images on bounded record lists and image trees          *)
(***************************************************************************)
Attachment(url, filename) ==
    Obj(<< <<"url", Str(url)>>, <<"filename", Str(StrOf(filename))>> >>)

Rec(id, fields) == Obj(<< <<"id", Str(id)>>, <<"fields", Obj(fields)>> >>)

\* recA with an attachment whose name has no recognised image extension
REC_A_HEIC == Rec("recA", << <<F_PHOTO, Arr(<<Attachment(URL_A1, FN_A_HEIC)>>)>> >>)
\* the same URL, the attachment renamed
REC_A_RENAMED == Rec("recA", << <<F_PHOTO, Arr(<<Attachment(URL_A1, FN_B_HEIC)>>)>> >>)
\* an attachment with a camera name, and a link
REC_A_JPG == Rec("recA", << <<F_PHOTO, Arr(<<Attachment(URL_A2, FN_IMG2024)>>)>>,
                            <<F_LINKS, Str(StrOf(LINKS_1))>> >>)
\* no attachment field and no link field
REC_A_NONE == Rec("recA", << <<"price", Num(1)>> >>)
\* an attachment without URL, then a link that is not http and one that is
REC_A_LINK == Rec("recA", << <<F_PHOTO, Arr(<<Obj(<< <<"filename", Str(StrOf(FN_HOUSE))>> >>)>>)>>,
                             <<F_LINKS, Str(StrOf(LINKS_FTP))>> >>)
\* an attachment without a name, one whose name needs cleaning
REC_A_UNNAMED == Rec("recA", << <<F_PHOTO, Arr(<<Obj(<< <<"url", Str(URL_A2)>> >>)>>)>> >>)
\* an attachment, and a link to the URL of the attachment
REC_A_DUP == Rec("recA", << <<F_PHOTO, Arr(<<Attachment(URL_A1, FN_A_HEIC)>>)>>,
                            <<F_LINKS, Str(StrOf(LINKS_FTP))>> >>)
REC_A_SPACED == Rec("recA", << <<F_PHOTO, Arr(<<Attachment(URL_A1, FN_SPACED)>>)>> >>)
REC_B_LINKS == Rec("recB", << <<F_LINKS, Str(StrOf(LINKS_2))>> >>)
REC_B_NONE == Rec("recB", <<>>)
\* a link field that is a list, not a string
REC_B_BADLINKS == Rec("recB", << <<F_LINKS, Arr(<<Str(URL_L1)>>)>> >>)
\* a record without id
REC_NO_ID == Obj(<< <<"fields", Obj(<< <<F_LINKS, Str(StrOf(LINKS_1))>> >>)>> >>)

ImageRecordsA == {REC_A_HEIC, REC_A_RENAMED, REC_A_JPG, REC_A_NONE, REC_A_LINK,
                  REC_A_UNNAMED, REC_A_SPACED, REC_A_DUP}
ImageRecordsB == {REC_B_LINKS, REC_B_NONE, REC_NO_ID}

ImageRecordLists ==
    {<<a>> : a \in ImageRecordsA}
    \cup {<<a, b>> : <<a, b>> \in {REC_A_HEIC, REC_A_NONE} \X ImageRecordsB}
    \cup {<<REC_B_BADLINKS>>, <<REC_B_BADLINKS, REC_A_JPG>>}

\* files a record directory can hold at the start
MaxFiles == 2

SeedFiles ==
    {File(FN_IMG2024, 1001, "seed"), File(FN_IMG2024, 1000, "seed"),
     File(FN_REP1, 2000, "seed"), File(FN_HOUSE, 2000, "seed"),
     File(FN_HOUSE_UP, 1001, "seed"), File(FN_PHOTO_LINK1, 5000, "seed"),
     File(FN_PHOTO1, 5000, "seed"), File(FN_A_HEIC, 5000, "seed"),
     File(TempName(FN_A_HEIC), 8192, "partial")}

SeedDirs ==
    {NoDir} \cup
    {[exists |-> TRUE, files |-> fs] :
        fs \in {x \in SUBSET SeedFiles :
                   /\ Cardinality(x) <= MaxFiles
                   /\ \A f, g \in x : f.name = g.name => f = g}}

\* metadata left by an earlier run that stored URL_A1 as a.heic for recA
META_A_HEIC == [EmptyMetadata EXCEPT !["recA"] =
                   [hash |-> md5_hexdigest(URL_A1), filename |-> FN_A_HEIC,
                    type |-> "representative", optimized |-> TRUE]]

SeedMetadata == {<<"nofile">>, <<"corrupt">>, <<"doc", EmptyMetadata>>, <<"doc", META_A_HEIC>>}

InitImages ==
    /\ pc = "img_begin"
    /\ arg = <<>>
    /\ ret = <<>>
    /\ faults = 0
    /\ \E d \in SeedDirs : imgdir = [r \in RecordIds |-> IF r = "recA" THEN d ELSE NoDir]
    /\ imgmeta \in SeedMetadata
    /\ records \in ImageRecordLists
    /\ ri = 0
    /\ image_metadata = EmptyMetadata
    /\ stats = ZeroStats
    /\ cur = NoCur
    /\ requested = [r \in RecordIds |-> 0]
    /\ clean_log = NoCleanLog
    /\ undeleted = [r \in RecordIds |-> {}]
    /\ attempt = NoAttempt
    /\ downloaded = [r \in RecordIds |-> ""]
    /\ api_key = TRUE
    /\ JobIdle

NextImages ==
    \/ ImgBegin
    \/ ImgNextRecord
    \/ CleanExistingDuplicates
    \/ ImgPick
    \/ ImgRequest
    \/ ImgStream
    \/ ImgValidate
    \/ ImgSave

SpecImages == InitImages /\ [][NextImages]_vars

(***************************************************************************)
(* backup_airtable_data                                                    *)
(***************************************************************************)
\* runs of the job in one behaviour
MaxRuns == 2

REC_A_REORDERED ==
    Obj(<< <<"fields", Obj(<< <<F_PHOTO, Arr(<<Obj(<< <<"filename", Str(StrOf(FN_A_HEIC))>>,
                                                     <<"url", Str(URL_A1)>> >>)>>)>> >>)>>,
           <<"id", Str("recA")>> >>)

\* what the remote source serves for the three filtered views unless said
\* otherwise: one page each, the page of high_yield empty
BasePages ==
    [v \in ViewNames |->
        IF v = "all" THEN << <<REC_A_HEIC>>, <<REC_B_NONE>> >>
        ELSE IF v = "reconstruction" THEN << <<REC_B_NONE>> >>
        ELSE IF v = "high_yield" THEN << <<>> >>
        ELSE << <<REC_A_NONE>> >>]

\* the states of the remote dataset a run can meet
Datasets ==
    {BasePages,
     [BasePages EXCEPT !["all"] = << <<REC_A_HEIC, REC_B_NONE>> >>],
     [BasePages EXCEPT !["all"] = << <<REC_A_REORDERED>>, <<REC_B_NONE>> >>],
     [BasePages EXCEPT !["all"] = << <<REC_A_HEIC>>, <<REC_B_LINKS>> >>],
     [BasePages EXCEPT !["all"] = << <<REC_A_RENAMED>>, <<REC_B_LINKS>> >>],
     [BasePages EXCEPT !["all"] = << <<REC_A_JPG>>, <<REC_B_NONE>> >>],
     [BasePages EXCEPT !["reconstruction"] = << <<REC_B_LINKS>> >>],
     [BasePages EXCEPT !["all"] = << <<REC_B_BADLINKS>>, <<REC_A_HEIC>> >>]}

\* lines 118-135: a run starts; without API key it returns False at once
StartRun ==
    /\ pc \in {"idle", "done", "crashed"}
    /\ run < MaxRuns
    /\ run' = run + 1
    /\ IF ~api_key
       THEN /\ result' = "failure"
            /\ pc' = "done"
            /\ UNCHANGED <<remote, vi, offset, view_records, all_records, job, handed,
                           prev_handed, written, snapshot0, requested, undeleted,
                           downloaded, prev_downloaded>>
       ELSE /\ remote' \in Datasets
            /\ vi' = 1
            /\ offset' = 0
            /\ view_records' = <<>>
            /\ all_records' = <<>>
            /\ job' = NoJob
            /\ result' = "none"
            /\ prev_handed' = handed
            /\ handed' = [v \in ViewNames |-> NotHanded]
            /\ written' = {}
            /\ snapshot0' = snapshot
            /\ requested' = [r \in RecordIds |-> 0]
            /\ undeleted' = [r \in RecordIds |-> {}]
            /\ prev_downloaded' = downloaded
            /\ downloaded' = [r \in RecordIds |-> ""]
            /\ pc' = "fetch"
    /\ UNCHANGED <<arg, ret, faults, api_key, snapshot, jobmeta, imgdir, imgmeta, records, ri,
                   image_metadata, stats, cur, clean_log, attempt>>

\* the end of one pass of the loop over VIEWS (line 138)
NextView ==
    /\ view_records' = <<>>
    /\ offset' = 0
    /\ IF vi < Len(VIEWS)
       THEN vi' = vi + 1 /\ pc' = "fetch"
       ELSE vi' = vi /\ pc' = "images_gate"

\* an except clause around the loop over VIEWS instead of inside it: the
\* first error ends the loop
AbortViews ==
    /\ view_records' = <<>>
    /\ offset' = 0
    /\ vi' = vi
    /\ pc' = "images_gate"

\* the except clause of lines 191-193: the pass of the loop over VIEWS ends
ExceptView == NextView

\* a source whose answers never carry a cursor
NoCursor(pages, cursor) == 0

\* data.get('offset') of line 175 for the page asked with cursor `cursor`
\* (0: none): the cursor of the next page, none on the last page
CursorOf(pages, cursor) == IF cursor + 1 < Len(pages) THEN cursor + 1 ELSE 0

\* lines 150-177: one page request.  A 200 answer is appended and the loop
\* goes on while the answer carries a cursor; another status breaks out of
\* the while loop only (line 161); a raised error is caught at line 191.
\* requests.get of line 157 is called without timeout: when the remote never
\* answers, the call never returns and the process stays in it.
FetchPage ==
    /\ pc = "fetch"
    /\ LET view_name == VIEWS[vi]
           pages == remote[view_name]
           asked == Append(handed[view_name].pages, offset + 1)
       IN  \/ /\ view_records' = view_records \o pages[offset + 1]
              /\ all_records' = IF view_name = "all" THEN all_records \o pages[offset + 1]
                                ELSE all_records
              /\ offset' = CursorOf(pages, offset)
              /\ pc' = IF offset' # 0 THEN "fetch" ELSE "compare"
              /\ handed' = [handed EXCEPT ![view_name].pages = asked]
              /\ UNCHANGED <<vi, faults>>
           \/ /\ faults < MaxFaults
              /\ faults' = faults + 1
              /\ handed' = [handed EXCEPT ![view_name].fetch = "status",
                                          ![view_name].pages = asked]
              /\ pc' = "compare"
              /\ UNCHANGED <<vi, offset, view_records, all_records>>
           \/ /\ faults < MaxFaults
              /\ faults' = faults + 1
              /\ handed' = [handed EXCEPT ![view_name].fetch = "raised",
                                          ![view_name].pages = asked]
              /\ ExceptView
              /\ UNCHANGED all_records
           \/ /\ faults < MaxFaults
              /\ faults' = faults + 1
              /\ handed' = [handed EXCEPT ![view_name].fetch = "hung",
                                          ![view_name].pages = asked]
              /\ pc' = "page_hung"
              /\ UNCHANGED <<vi, offset, view_records, all_records>>
    /\ UNCHANGED <<arg, ret, imgvars, api_key, snapshot, jobmeta, remote, run, job, result,
                   prev_handed, written, snapshot0, prev_downloaded>>

\* lines 179-189: the records fetched go to the change detector.  When the
\* detector has to save, save_backup_data (lines 68-73) may raise: open()
\* failed and the file is what it was, or json.dump failed after open(.., 'w')
\* truncated the file and what is left cannot be parsed.  The error is caught
\* at line 191, after which neither success_count nor updated_views changes.
CompareAndUpdate ==
    /\ pc = "compare"
    /\ LET view_name == VIEWS[vi]
       IN  \E r \in {compare_and_update_data(view_records, snapshot[view_name])} :
           \/ /\ snapshot' = [snapshot EXCEPT ![view_name] = r.file]
              /\ written' = IF r.was_updated THEN written \cup {view_name} ELSE written
              /\ job' = [total_records |-> job.total_records + r.record_count,
                         success_count |-> job.success_count + 1,
                         total_changes |-> job.total_changes
                                           + (IF r.was_updated THEN r.changes ELSE 0),
                         updated_views |-> IF r.was_updated
                                           THEN Append(job.updated_views, view_name)
                                           ELSE job.updated_views]
              /\ handed' = [handed EXCEPT ![view_name] =
                               [fetch |-> IF @.fetch = "status" THEN "status" ELSE "ok",
                                list |-> view_records, compared |-> TRUE,
                                pages |-> @.pages]]
              /\ NextView
              /\ UNCHANGED faults
           \/ /\ r.was_updated
              /\ faults < MaxFaults
              /\ faults' = faults + 1
              /\ \E left \in {snapshot[view_name], Corrupt} :
                    /\ snapshot' = [snapshot EXCEPT ![view_name] = left]
                    /\ written' = IF left = snapshot[view_name] THEN written
                                  ELSE written \cup {view_name}
              /\ handed' = [handed EXCEPT ![view_name] =
                               [fetch |-> IF @.fetch = "status" THEN "status" ELSE "ok",
                                list |-> view_records, compared |-> FALSE,
                                pages |-> @.pages]]
              /\ ExceptView
              /\ UNCHANGED job
    /\ UNCHANGED <<arg, ret, imgvars, api_key, jobmeta, remote, run, all_records,
                   result, prev_handed, snapshot0, prev_downloaded>>

InSeq(x, s) == \E i \in 1..Len(s) : s[i] = x

\* a gate that opens when any view was rewritten
ImagesGateAnyView ==
    /\ pc = "images_gate"
    /\ IF job.updated_views # <<>> /\ all_records # <<>>
       THEN /\ records' = all_records
            /\ pc' = "img_begin"
            /\ UNCHANGED stats
       ELSE /\ stats' = ZeroStats
            /\ pc' = "job_meta"
            /\ UNCHANGED records
    /\ UNCHANGED <<arg, ret, faults, jobvars, imgdir, imgmeta, ri, image_metadata, cur,
                   requested, clean_log, undeleted, attempt, downloaded>>

\* lines 195-201: images are processed when 'all' was rewritten and has records
ImagesGate ==
    /\ pc = "images_gate"
    /\ IF InSeq("all", job.updated_views) /\ all_records # <<>>
       THEN /\ records' = all_records
            /\ pc' = "img_begin"
            /\ UNCHANGED stats
       ELSE /\ stats' = ZeroStats
            /\ pc' = "job_meta"
            /\ UNCHANGED records
    /\ UNCHANGED <<arg, ret, faults, jobvars, imgdir, imgmeta, ri, image_metadata, cur,
                   requested, clean_log, undeleted, attempt, downloaded>>

\* lines 203-227: metadata.json is written and the run returns
JobMetadata ==
    /\ pc \in {"job_meta", "img_return"}
    /\ jobmeta' = Doc([total_records |-> job.total_records,
                       views_processed |-> job.success_count,
                       total_views |-> Len(VIEWS),
                       updated_views |-> job.updated_views,
                       total_changes |-> job.total_changes,
                       image_stats |-> stats])
    /\ result' = IF job.success_count = Len(VIEWS) THEN "success" ELSE "failure"
    /\ pc' = "done"
    /\ UNCHANGED <<arg, ret, faults, imgvars, api_key, snapshot, remote, run, vi, offset,
                   view_records, all_records, job, handed, prev_handed, written, snapshot0,
                   prev_downloaded>>

Init ==
    /\ pc = "idle"
    /\ arg = <<>>
    /\ ret = <<>>
    /\ faults = 0
    /\ api_key \in BOOLEAN
    /\ ImagesIdle
    /\ JobIdle

Next ==
    \/ StartRun
    \/ FetchPage
    \/ CompareAndUpdate
    \/ ImagesGate
    \/ JobMetadata
    \/ ImgBegin
    \/ ImgNextRecord
    \/ CleanExistingDuplicates
    \/ ImgPick
    \/ ImgRequest
    \/ ImgStream
    \/ ImgValidate
    \/ ImgSave

Spec == Init /\ [][Next]_vars

\* the first run of the job
StartFirstRun == run = 0 /\ StartRun

\* one run of the job, from its start to its end
NextLive ==
    \/ StartFirstRun
    \/ FetchPage
    \/ CompareAndUpdate
    \/ ImagesGate
    \/ JobMetadata
    \/ ImgBegin
    \/ ImgNextRecord
    \/ CleanExistingDuplicates
    \/ ImgPick
    \/ ImgRequest
    \/ ImgStream
    \/ ImgValidate
    \/ ImgSave

\* the process is sequential and always scheduled: a step that can be taken
\* is taken
SpecLive == Init /\ [][NextLive]_vars /\ WF_vars(NextLive)

(***************************************************************************)
(* calculate_data_hash on bounded record lists                             *)
(***************************************************************************)
RECURSIVE Perms(_)
\* every ordering of the elements of a sequence without repeats
Perms(s) ==
    IF s = <<>> THEN {<<>>}
    ELSE UNION {{<<s[i]>> \o t : t \in Perms(SubSeq(s, 1, i - 1) \o SubSeq(s, i + 1, Len(s)))}
                : i \in 1..Len(s)}

HashUrls == {"u1", "u2"}
HashIds == {"recA", "recB"}
HashPrices == {Num(1), Num(2), Str("1")}

HashAttachments ==
    UNION {{Obj(p) : p \in Perms(<< <<"url", Str(u)>>, <<"filename", Str("a.jpg")>> >>)}
           : u \in HashUrls}

HashFields ==
    UNION {{Obj(p) : p \in Perms(<< <<"price", Num(1)>>, <<F_PHOTO, Arr(<<a>>)>> >>)}
           : a \in HashAttachments}

HashRecords ==
    UNION {{Obj(p) : p \in Perms(<< <<"id", Str(i)>>, <<"fields", f>> >>)}
           : <<i, f>> \in HashIds \X HashFields}

\* records with flat fields, for the lists of two
HashFlatRecords ==
    UNION {{Obj(p) : p \in Perms(<< <<"id", Str(i)>>,
                                    <<"fields", Obj(<< <<"price", n>> >>)>> >>)}
           : <<i, n>> \in HashIds \X HashPrices}

HashLists ==
    {Arr(<<>>)} \cup {Arr(<<r>>) : r \in HashRecords}
    \cup {Arr(<<r1, r2>>) : <<r1, r2>> \in HashFlatRecords \X HashFlatRecords}

InitHash ==
    /\ pc = "hash"
    /\ arg \in HashLists \X HashLists
    /\ ret = <<>>
    /\ faults = 0
    /\ api_key = TRUE
    /\ ImagesIdle
    /\ JobIdle

HashCall ==
    /\ pc = "hash"
    /\ ret' = <<calculate_data_hash(arg[1]), calculate_data_hash(arg[2])>>
    /\ pc' = "hash_done"
    /\ UNCHANGED <<arg, faults, imgvars>>
    /\ UNCHANGED jobvars

NextHash == HashCall

SpecHash == InitHash /\ [][NextHash]_vars

RECURSIVE JsonEq(_, _)
\* the same JSON value: objects as maps (key order ignored), arrays in order
JsonEq(a, b) ==
    IF a[1] # b[1] THEN FALSE
    ELSE IF IsObj(a)
    THEN /\ Len(a[2]) = Len(b[2])
         /\ Keys(a) = Keys(b)
         /\ \A k \in Keys(a) : JsonEq(Get(a, k), Get(b, k))
    ELSE IF IsArr(a)
    THEN /\ Len(a[2]) = Len(b[2])
         /\ \A i \in 1..Len(a[2]) : JsonEq(a[2][i], b[2][i])
    ELSE a[2] = b[2]

\* C6: two record lists get the same digest exactly when they are the same
\* lists up to the order of the keys inside their objects, at any depth: a
\* difference of key order alone never changes the digest, a difference in a
\* field value, in the number of records or in a record id always does.
C6_HashDeterminism ==
    pc = "hash_done" => (JsonEq(arg[1], arg[2]) <=> ret[1] = ret[2])

\* two different documents, the key order differing inside the nested
\* attachment object, hashed to one digest
C6_Witness ==
    /\ pc = "hash_done"
    /\ arg[1] # arg[2]
    /\ Len(arg[1][2]) = 1
    /\ Len(arg[2][2]) = 1
    /\ Get(arg[1][2][1], "fields") # Get(arg[2][2][1], "fields")
    /\ JsonEq(arg[1], arg[2])
    /\ Get(Get(arg[1][2][1], "fields"), F_PHOTO) # Get(Get(arg[2][2][1], "fields"), F_PHOTO)
    /\ ret[1] = ret[2]

(***************************************************************************)
(* compare_and_update_data on bounded snapshots and record lists           *)
(***************************************************************************)
\* records of a list handed to the change detector
MaxRecs == 2

DetectIds == {"recA", "recB", "recC"}

PriceRec(id, n) == Rec(id, << <<"price", Num(n)>> >>)
PriceRecReordered(id, n) ==
    Obj(<< <<"fields", Obj(<< <<"price", Num(n)>> >>)>>, <<"id", Str(id)>> >>)

DetectRecords ==
    {PriceRec(id, 1) : id \in DetectIds} \cup {PriceRec(id, 2) : id \in DetectIds}
    \cup {PriceRecReordered(id, 1) : id \in DetectIds}

\* the lists of at most MaxRecs records with distinct ids
DetectLists ==
    UNION {{l \in [1..n -> DetectRecords] :
               \A i, j \in 1..n : RecordId(l[i]) = RecordId(l[j]) => i = j}
           : n \in 0..MaxRecs}

InitDetect ==
    /\ pc = "detect"
    /\ arg \in ({NoFile, Corrupt} \cup {Doc(Arr(l)) : l \in DetectLists}) \X DetectLists
    /\ ret = <<>>
    /\ faults = 0
    /\ api_key = TRUE
    /\ ImagesIdle
    /\ JobIdle

\* one call of compare_and_update_data(arg[2], ...) on the snapshot file arg[1]
DetectCall ==
    /\ pc = "detect"
    /\ ret' = compare_and_update_data(arg[2], arg[1])
    /\ pc' = "detect_done"
    /\ UNCHANGED <<arg, faults, imgvars, jobvars>>

NextDetect == DetectCall

SpecDetect == InitDetect /\ [][NextDetect]_vars

\* C7: without a previous snapshot (no file, or one that cannot be read) the
\* detector reports Changed and writes the fetched list, whatever the list;
\* with a previous snapshot it reports Unchanged and leaves the file alone
\* exactly when the hash of the fetched list equals the hash recomputed from
\* the stored document, and otherwise reports Changed and writes the list.
C7_ChangeDecision ==
    pc = "detect_done" =>
        LET file == arg[1]
            new_data == arg[2]
            unchanged == ~ret.was_updated /\ ret.file = file
            rewritten == ret.was_updated /\ ret.file = Doc(Arr(new_data))
        IN  /\ ~HasPrevious(file) => rewritten
            /\ HasPrevious(file) =>
                  /\ unchanged <=> calculate_data_hash(Arr(new_data)) = calculate_data_hash(file[2])
                  /\ unchanged \/ rewritten

\* a stored document that is not the fetched list, key for key, yet hashes
\* like it: Unchanged, no write
C7_Witness ==
    /\ pc = "detect_done"
    /\ HasPrevious(arg[1])
    /\ arg[1][2] # Arr(arg[2])
    /\ arg[2] # <<>>
    /\ ~ret.was_updated
    /\ ret.file = arg[1]

\* the record of an id in a list of distinct ids
RecordOf(data, id) == data[CHOOSE i \in 1..Len(data) : RecordId(data[i]) = id]

\* C8: when the detector reports Changed against an existing snapshot, the
\* added count is the number of ids of the fetch that the snapshot lacks, the
\* removed count the number of ids of the snapshot that the fetch lacks, and
\* the modified count the number of ids in both whose records differ in
\* content; previous {A, B} and new {A, C} with A identical give 1, 1 and 0.
C8_ChangeClassification ==
    pc = "detect_done" /\ HasPrevious(arg[1]) /\ ret.was_updated =>
        LET previous_data == arg[1][2][2]
            new_data == arg[2]
            added == {i \in 1..Len(new_data) :
                         \A j \in 1..Len(previous_data) :
                             RecordId(previous_data[j]) # RecordId(new_data[i])}
            removed == {j \in 1..Len(previous_data) :
                           \A i \in 1..Len(new_data) :
                               RecordId(previous_data[j]) # RecordId(new_data[i])}
            modified == {id \in IdsOf(new_data) \cap IdsOf(previous_data) :
                            ~JsonEq(RecordOf(new_data, id), RecordOf(previous_data, id))}
        IN  /\ ret.added_count = Cardinality(added)
            /\ ret.removed_count = Cardinality(removed)
            /\ ret.modified_count = Cardinality(modified)
            /\ ret.changes = Cardinality(added) + Cardinality(removed) + Cardinality(modified)
            /\ (previous_data = <<PriceRec("recA", 1), PriceRec("recB", 1)>>
                /\ new_data = <<PriceRec("recA", 1), PriceRec("recC", 1)>>)
               => (ret.added_count = 1 /\ ret.removed_count = 1 /\ ret.modified_count = 0)

\* previous {A, B}, new {A, C}: Changed with one added, one removed
C8_Witness ==
    /\ pc = "detect_done"
    /\ arg[1] = Doc(Arr(<<PriceRec("recA", 1), PriceRec("recB", 1)>>))
    /\ arg[2] = <<PriceRec("recA", 1), PriceRec("recC", 1)>>
    /\ ret.was_updated
    /\ ret.added_count = 1
    /\ ret.removed_count = 1
    /\ ret.modified_count = 0

(***************************************************************************)
(* Properties of the job                                                   *)
(***************************************************************************)
\* C1: when a run has handed the change detector, for every view, the list
\* the run before handed it, the run writes no snapshot file and issues no
\* image download request.
C1_IdempotentRun ==
    (/\ pc = "done"
     /\ run >= 2
     /\ \A v \in ViewNames : /\ handed[v].compared
                             /\ prev_handed[v].compared
                             /\ handed[v].list = prev_handed[v].list)
    => /\ written = {}
       /\ \A r \in RecordIds : requested[r] = 0

\* a second run over an unchanged dataset, the first run having stored an
\* image: nothing written, nothing requested
C1_Witness ==
    /\ pc = "done"
    /\ run = 2
    /\ \A v \in ViewNames : /\ handed[v].compared
                            /\ prev_handed[v].compared
                            /\ handed[v].list = prev_handed[v].list
    /\ handed["all"].list # <<>>
    /\ prev_downloaded["recA"] # ""
    /\ written = {}
    /\ \A r \in RecordIds : requested[r] = 0

\* C2: at the end of a run, the snapshot file of every view one of whose
\* page requests failed (another status than 200, or a raised error) is what
\* it was when the run started.
C2_FailedFetchKeepsSnapshot ==
    pc = "done" =>
        \A v \in ViewNames :
            handed[v].fetch \in {"status", "raised"} => snapshot[v] = snapshot0[v]

\* C9: a record whose first candidate has the URL that the run before
\* downloaded and stored for it gets no download request in this run.
C9_NoRedownload ==
    \A i \in 1..Len(all_records) :
        LET record_id == RecordId(all_records[i])
            image_urls == ImageUrls(FieldsOf(all_records[i]))
        IN  (/\ record_id # ""
             /\ ~CandidatesRaise(FieldsOf(all_records[i]))
             /\ image_urls # <<>>
             /\ image_urls[1].url = prev_downloaded[record_id])
            => requested[record_id] = 0

(***************************************************************************)
(* Properties of the image stage                                           *)
(***************************************************************************)
\* f.lower().endswith(('.jpg', '.jpeg', '.png', '.gif', '.webp'))
HasImageExtension(name) == \E ext \in ImageExtensions : endswith(lower(name), ext)

ImageFiles(files) == {f \in files : HasImageExtension(f.name)}
ValidImages(files) == {f \in files : IsValidImage(f)}

ProcessedIds == {RecordId(records[i]) : i \in 1..Len(records)} \ {""}

FailedOutcomes == {"status", "raised", "stream_error", "too_small"}

\* the download attempt of the record just left by the loop has failed
AttemptJustFailed ==
    /\ pc = "img_loop"
    /\ ri > 1
    /\ attempt.outcome \in FailedOutcomes
    /\ attempt.record_id = cur.record_id
    /\ cur.record_id = RecordId(records[ri - 1])
    /\ cur.url # ""

\* C4: after a failed download (status, payload of at most 1000 bytes, error
\* while streaming) no file has appeared under the final filename and every
\* file the directory held before the attempt is still there, unchanged.
C4_FailedDownloadAtomic ==
    AttemptJustFailed =>
        LET files == imgdir[cur.record_id].files
        IN  /\ cur.filename \notin Names(attempt.before) => cur.filename \notin Names(files)
            /\ \A f \in attempt.before : f \in files

C10_NoTraceWithoutCandidates ==
    [][\A i \in 1..Len(records) :
          LET record_id == RecordId(records[i])
          IN  (/\ pc \in {"img_loop", "img_clean", "img_pick"}
               /\ record_id # ""
               /\ ~CandidatesRaise(FieldsOf(records[i]))
               /\ ImageUrls(FieldsOf(records[i])) = <<>>)
              => /\ imgdir'[record_id].exists = imgdir[record_id].exists
                 /\ image_metadata'[record_id] = image_metadata[record_id]]_vars

(***************************************************************************)
(* Errors of a run                                                         *)
(***************************************************************************)
\* C11: a run with an API key, none of whose saves raised, returns success
\* exactly when every page request of every view was answered with status
\* 200: another status or a raised error on any page makes it return failure.
C11_SuccessIffAllFetched ==
    (/\ pc = "done" /\ api_key /\ run >= 1
     /\ \A v \in ViewNames : handed[v].compared \/ handed[v].fetch = "raised")
    => (result = "success" <=> \A v \in ViewNames : handed[v].fetch = "ok")

\* the view was fetched and its compare-and-save ended, with or without error
ViewAttempted(v) == handed[v].fetch # "none"

\* C12: at the end of a run with an API key every view has been attempted,
\* whatever failed before it: each view either had its fetch or its save
\* raise, or was compared and its snapshot file holds the list fetched (as
\* written by this run, or as left alone because the hashes were equal).
C12_EveryViewAttempted ==
    (pc = "done" /\ api_key /\ run >= 1) =>
        \A v \in ViewNames :
            /\ ViewAttempted(v)
            /\ handed[v].compared =>
                  /\ HasPrevious(snapshot[v])
                  /\ calculate_data_hash(snapshot[v][2])
                     = calculate_data_hash(Arr(handed[v].list))
                  /\ snapshot[v] # snapshot0[v] => snapshot[v] = Doc(Arr(handed[v].list))

\* the fetch of the first view raised; the three later views were fetched,
\* compared and saved all the same
C12_Witness ==
    /\ pc = "done"
    /\ run = 1
    /\ handed["all"].fetch = "raised"
    /\ \A v \in ViewNames \ {"all"} :
          /\ handed[v].fetch = "ok"
          /\ handed[v].compared
          /\ v \in written
          /\ snapshot[v] = Doc(Arr(handed[v].list))

\* the run that has just ended called backup_property_images (line 199)
ImagesWereStarted ==
    /\ pc \in {"done", "crashed"}
    /\ api_key
    /\ run >= 1
    /\ InSeq("all", job.updated_views)
    /\ all_records # <<>>

\* C13: a run that processes images ends with every record of the list
\* processed, whatever was raised while one of them was handled, and with
\* the image metadata document and the job metadata document written.
C13_RecordIsolation ==
    ImagesWereStarted =>
        /\ ri > Len(records)
        /\ imgmeta = Doc(image_metadata)
        /\ jobmeta[1] = "doc"
        /\ jobmeta[2].image_stats = stats
        /\ jobmeta[2].updated_views = job.updated_views

(***************************************************************************)
(* Pagination                                                              *)
(***************************************************************************)
RECURSIVE Flatten(_)
\* the records of a sequence of pages, in page order
Flatten(pages) == IF pages = <<>> THEN <<>> ELSE Head(pages) \o Flatten(Tail(pages))

\* C14: a view all of whose page requests were answered with 200 had its
\* pages requested once each, in order, up to the page without cursor, and
\* the change detector was handed their records in page order.
C14_PaginationComplete ==
    \A v \in ViewNames :
        handed[v].fetch = "ok" =>
            /\ handed[v].pages = [i \in 1..Len(remote[v]) |-> i]
            /\ handed[v].list = Flatten(remote[v])

\* the two pages of 'all', one record each, handed over as a list of two
C14_Witness ==
    /\ handed["all"].fetch = "ok"
    /\ Len(remote["all"]) = 2
    /\ handed["all"].pages = <<1, 2>>
    /\ handed["all"].list = remote["all"][1] \o remote["all"][2]
    /\ Len(handed["all"].list) = 2
    /\ handed["all"].list[1] # handed["all"].list[2]

(***************************************************************************)
(* Snapshot files that cannot be read                                      *)
(***************************************************************************)
\* C15: a view whose snapshot file was missing or unparsable when the run
\* started and whose fetch and save went through is reported Changed and
\* its file is rewritten with the records fetched; the run returns success
\* when every view went through.
C15_UnreadableSnapshotRewritten ==
    (pc = "done" /\ api_key /\ run >= 1) =>
        /\ \A v \in ViewNames :
              (/\ snapshot0[v] \in {NoFile, Corrupt}
               /\ handed[v].fetch = "ok"
               /\ handed[v].compared)
              => /\ load_previous_data(snapshot0[v]) = None
                 /\ v \in written
                 /\ InSeq(v, job.updated_views)
                 /\ snapshot[v] = Doc(Arr(handed[v].list))
        /\ (\A v \in ViewNames : handed[v].fetch = "ok" /\ handed[v].compared)
           => result = "success"

\* the second run finds the snapshot of 'all' truncated by the failed save
\* of the first, rewrites it and returns success
C15_Witness ==
    /\ pc = "done"
    /\ run = 2
    /\ snapshot0["all"] = Corrupt
    /\ handed["all"].fetch = "ok"
    /\ handed["all"].list # <<>>
    /\ "all" \in written
    /\ snapshot["all"] = Doc(Arr(handed["all"].list))
    /\ result = "success"

(***************************************************************************)
(* Failed downloads                                                        *)
(***************************************************************************)
\* C16: a record whose last download attempt, in an earlier run, failed is
\* requested again by a run that finds the dataset as that run found it.
C16_RetryOnNextRun ==
    (/\ pc = "done" /\ api_key /\ run >= 2
     /\ attempt.outcome \in FailedOutcomes
     /\ handed["all"].compared
     /\ prev_handed["all"].compared
     /\ handed["all"].list = prev_handed["all"].list
     /\ \E i \in 1..Len(handed["all"].list) :
           RecordId(handed["all"].list[i]) = attempt.record_id)
    => requested[attempt.record_id] >= 1

\* C17: after a failed download attempt no temporary file of the attempt
\* (<final name>.tmp) is in the record directory.
C17_NoTemporaryFileLeft ==
    AttemptJustFailed =>
        TempName(cur.filename) \notin Names(imgdir[cur.record_id].files)

(***************************************************************************)
(* cleanup_old_backups                                                     *)
(***************************************************************************)
RECURSIVE SplitDash(_, _)
\* name.split('-'), `acc` being the part read so far
SplitDash(t, acc) ==
    IF t = <<>> THEN <<acc>>
    ELSE IF Head(t) = "-" THEN <<acc>> \o SplitDash(Tail(t), <<>>)
    ELSE SplitDash(Tail(t), Append(acc, Head(t)))

DigitValue(c) == CHOOSE n \in 0..9 : ToString(n) = c

RECURSIVE NumberOf(_)
\* the number a text of digits writes
NumberOf(t) ==
    IF t = <<>> THEN 0
    ELSE 10 * NumberOf(SubSeq(t, 1, Len(t) - 1)) + DigitValue(t[Len(t)])

AllDigits(t) == \A i \in 1..Len(t) : t[i] \in Digits

IsLeapYear(y) == (y % 4 = 0 /\ y % 100 # 0) \/ y % 400 = 0

DaysInMonth(y, m) ==
    IF m = 2 THEN (IF IsLeapYear(y) THEN 29 ELSE 28)
    ELSE IF m \in {4, 6, 9, 11} THEN 30
    ELSE 31

\* a check of the shape of the name alone, without strptime
LooksLikeDate(folder_name) ==
    Len(folder_name) = 10 /\ Len(SplitDash(folder_name, <<>>)) = 3

\* datetime.strptime(folder_name, '%Y-%m-%d') returns (TRUE) or raises
\* ValueError (FALSE): four digits of a year from 1 on, a month of one or
\* two digits from 1 to 12, a day of one or two digits that the month has
strptime_Ymd(folder_name) ==
    LET parts == SplitDash(folder_name, <<>>)
    IN  /\ Len(parts) = 3
        /\ Len(parts[1]) = 4 /\ AllDigits(parts[1]) /\ NumberOf(parts[1]) >= 1
        /\ Len(parts[2]) \in {1, 2} /\ AllDigits(parts[2])
        /\ NumberOf(parts[2]) \in 1..12
        /\ Len(parts[3]) \in {1, 2} /\ AllDigits(parts[3])
        /\ NumberOf(parts[3]) \in 1..DaysInMonth(NumberOf(parts[1]), NumberOf(parts[2]))

\* lines 491-494: the folders cleanup_old_backups removes
IsRemovalTarget(entry) ==
    /\ entry.isdir
    /\ Len(entry.name) = 10
    /\ Len(SplitDash(entry.name, <<>>)) - 1 = 2
    /\ strptime_Ymd(entry.name)

\* names found in the backup root
DN_OLD == <<"2", "0", "2", "0", "-", "0", "1", "-", "0", "1">>
DN_LEAP == <<"2", "0", "2", "4", "-", "0", "2", "-", "2", "9">>
DN_TODAY == <<"2", "0", "2", "5", "-", "0", "6", "-", "1", "5">>
DN_NO_DAY == <<"2", "0", "2", "3", "-", "0", "2", "-", "2", "9">>
DN_NO_MONTH == <<"2", "0", "2", "0", "-", "1", "3", "-", "0", "1">>
DN_LETTERS == <<"a", "b", "-", "c", "d", "-", "e", "f", "g", "h">>
DN_SHORT == <<"2", "0", "2", "0", "-", "1", "-", "1">>
DN_IMAGES == <<"i", "m", "a", "g", "e", "s">>

Entry(name, isdir) == [name |-> name, isdir |-> isdir]

RootEntries ==
    {Entry(n, TRUE) : n \in {DN_OLD, DN_LEAP, DN_TODAY, DN_NO_DAY, DN_NO_MONTH,
                             DN_LETTERS, DN_SHORT, DN_IMAGES}}
    \cup {Entry(DN_OLD, FALSE), Entry(DN_TODAY, FALSE)}

\* entries of the backup root at the start
MaxEntries == 3

InitCleanup ==
    /\ pc = "cleanup_begin"
    /\ \E es \in SUBSET RootEntries :
          /\ Cardinality(es) <= MaxEntries
          /\ \A e, f \in es : e.name = f.name => e = f
          /\ arg = [entries |-> es, today |-> DN_TODAY]
          /\ ret = [root |-> es, listed |-> FALSE, todo |-> {}, removed_count |-> 0,
                   failed |-> {}]
    /\ faults = 0
    /\ api_key = TRUE
    /\ ImagesIdle
    /\ JobIdle

\* line 487: os.listdir(BACKUP_DIR); an error it raises is caught at line 510
CleanupList ==
    /\ pc = "cleanup_begin"
    /\ \/ /\ ret' = [ret EXCEPT !.todo = ret.root, !.listed = TRUE]
          /\ pc' = "cleanup_loop"
          /\ UNCHANGED faults
       \/ /\ faults < MaxFaults
          /\ faults' = faults + 1
          /\ pc' = "cleanup_done"
          /\ UNCHANGED ret
    /\ UNCHANGED <<arg, imgvars, jobvars>>

\* lines 487-503: one pass of the loop; shutil.rmtree may fail, which is
\* logged at line 503
CleanupFolder ==
    /\ pc = "cleanup_loop"
    /\ \E entry \in ret.todo :
          \/ /\ IsRemovalTarget(entry)
             /\ ret' = [ret EXCEPT !.todo = @ \ {entry}, !.root = @ \ {entry},
                                   !.removed_count = @ + 1]
             /\ UNCHANGED faults
          \/ /\ IsRemovalTarget(entry)
             /\ faults < MaxFaults
             /\ faults' = faults + 1
             /\ ret' = [ret EXCEPT !.todo = @ \ {entry}, !.failed = @ \cup {entry}]
          \/ /\ ~IsRemovalTarget(entry)
             /\ ret' = [ret EXCEPT !.todo = @ \ {entry}]
             /\ UNCHANGED faults
    /\ UNCHANGED <<pc, arg, imgvars, jobvars>>

\* lines 505-508: the loop is over
CleanupReturn ==
    /\ pc = "cleanup_loop"
    /\ ret.todo = {}
    /\ pc' = "cleanup_done"
    /\ UNCHANGED <<arg, ret, faults, imgvars, jobvars>>

NextCleanup == CleanupList \/ CleanupFolder \/ CleanupReturn

SpecCleanup == InitCleanup /\ [][NextCleanup]_vars

\* the names of the model that are calendar dates written YYYY-MM-DD
DateNames == {DN_OLD, DN_LEAP, DN_TODAY}

\* the day a date name writes, as one number
DayNumber(name) ==
    NumberOf(SubSeq(name, 1, 4)) * 10000 + NumberOf(SubSeq(name, 6, 7)) * 100
    + NumberOf(SubSeq(name, 9, 10))

RemovedEntries == arg.entries \ ret.root

NoPass == [best |-> <<>>, deleted_count |-> 0, files |-> {}, failed |-> {}]

\* images of one size and one priority class, their names of three lengths
TieFiles ==
    {File(FN_HOUSE, 2000, "seed"), File(FN_SPACED, 2000, "seed"),
     File(FN_PHOTO_LINK1, 2000, "seed")}

CleanDirs ==
    SeedDirs \cup
    {[exists |-> TRUE, files |-> fs] :
        fs \in {x \in SUBSET TieFiles : Cardinality(x) <= MaxFiles}}

InitClean ==
    /\ pc = "clean_first"
    /\ arg \in CleanDirs
    /\ ret = [first |-> NoPass, second |-> NoPass]
    /\ faults = 0
    /\ api_key = TRUE
    /\ ImagesIdle
    /\ JobIdle

\* one call on the directory `dir`, the files listed in any order and any
\* of the deletions failing
CleanPass(dir, pass, next_pc) ==
    /\ \E listing \in Listings(dir.files) :
       \E failing \in {n \in SUBSET Names(dir.files) : faults + Cardinality(n) <= MaxFaults} :
       \E r \in {clean_existing_duplicates(dir, listing, failing)} :
          /\ failing = r.failed
          /\ faults' = faults + Cardinality(failing)
          /\ ret' = [ret EXCEPT ![pass] = r]
    /\ pc' = next_pc
    /\ UNCHANGED <<arg, imgvars, jobvars>>

CleanFirst == pc = "clean_first" /\ CleanPass(arg, "first", "clean_second")

CleanSecond ==
    /\ pc = "clean_second"
    /\ CleanPass([arg EXCEPT !.files = ret.first.files], "second", "clean_done")

NextClean == CleanFirst \/ CleanSecond

SpecClean == InitClean /\ [][NextClean]_vars

C20_AtMostOneRequest ==
    \A r \in RecordIds : requested[r] <= 1

\* a record with an attachment and links was asked for once, the request
\* failed, and the run went past the record
C20_Witness ==
    /\ pc = "img_return"
    /\ records = <<REC_A_JPG>>
    /\ Len(ImageUrls(FieldsOf(REC_A_JPG))) >= 2
    /\ attempt.record_id = "recA"
    /\ attempt.outcome \in {"status", "raised"}
    /\ requested["recA"] = 1

\* C21: every run of backup_airtable_data that has started its fetches
\* comes to its end (the job metadata written and the result returned, or,
\* an error having escaped the image stage, the process ended), whatever
\* remote call fails to answer.
C21_RunTerminates ==
    (pc = "fetch") ~> (pc \in {"done", "crashed"})

\* the files of a directory stored under `name`
FilesNamed(files, name) == {f \in files : f.name = name}

\* C22: at every point of a download attempt, and so wherever the process
\* is killed, the file under the final filename is absent, or the file the
\* directory held before the attempt, or the complete payload of more than
\* 1000 bytes; chunks of an unfinished payload are under the .tmp name only.
C22_FinalNameNeverPartial ==
    /\ \A r \in RecordIds : \A f \in imgdir[r].files :
          f.data = "partial" => endswith(f.name, EXT_TMP)
    /\ (attempt.record_id # "" /\ attempt.record_id = cur.record_id) =>
          \A f \in FilesNamed(imgdir[cur.record_id].files, cur.filename) :
             \/ f \in attempt.before
             \/ /\ f = File(cur.filename, cur.payload, cur.url)
                /\ f.size > MinImageBytes

\* the stream broke after a chunk was written: the chunk is under the .tmp
\* name and the image the directory held under the final name is intact
C22_Witness ==
    /\ attempt.outcome = "stream_error"
    /\ attempt.record_id = cur.record_id
    /\ \E t \in FilesNamed(imgdir[cur.record_id].files, TempName(cur.filename)) :
          t.data = "partial" /\ t.size > 0 /\ t.size < cur.payload
    /\ FilesNamed(imgdir[cur.record_id].files, cur.filename) # {}
    /\ FilesNamed(imgdir[cur.record_id].files, cur.filename) \subseteq attempt.before

ImagePcs == {"img_begin", "img_loop", "img_clean", "img_pick", "img_request",
             "img_stream", "img_validate", "img_return"}

\* C23: in every run a view whose fetch failed goes no further (nothing is
\* compared or written for it), a view whose snapshot was rewritten with
\* records has the image stage run in that run, and the image stage starts
\* after the snapshot writes of the run only.
C23_ViewStateMachine ==
    /\ (pc = "done" /\ api_key /\ run >= 1) =>
          \A v \in ViewNames :
             /\ handed[v].fetch \in {"status", "raised"} =>
                   (~handed[v].compared /\ v \notin written)
             /\ (v \in written /\ handed[v].compared /\ handed[v].list # <<>>) =>
                   ImagesWereStarted
    /\ pc \in ImagePcs => (vi = Len(VIEWS) /\ view_records = <<>>)

\* C24: when a run that processes images finds, for a record whose image was
\* stored by the run before, a first candidate with another URL, it requests
\* that candidate, and what the request stores is recorded in the metadata
\* entry of the record (url hash, filename, source kind).
C24_NewCandidateReplaces ==
    (pc = "done" /\ run >= 2 /\ ImagesWereStarted) =>
        \A i \in 1..Len(all_records) :
            LET record_id == RecordId(all_records[i])
                fields == FieldsOf(all_records[i])
            IN  (/\ record_id # ""
                 /\ ~CandidatesRaise(fields)
                 /\ ImageUrls(fields) # <<>>
                 /\ prev_downloaded[record_id] # ""
                 /\ ImageUrls(fields)[1].url # prev_downloaded[record_id])
                => /\ requested[record_id] = 1
                   /\ downloaded[record_id] # "" =>
                         /\ downloaded[record_id] = ImageUrls(fields)[1].url
                         /\ image_metadata[record_id].hash
                            = md5_hexdigest(ImageUrls(fields)[1].url)
                         /\ image_metadata[record_id].type = ImageUrls(fields)[1].type

\* C25: of the valid images of a directory that have the priority class and
\* the size of the file the cleaner kept, none has a shorter filename than
\* the kept file, in whatever order the directory was listed.
C25_ShorterNameWinsTie ==
    (pc \in {"clean_second", "clean_done"} /\ ret.first.best # <<>>) =>
        \A f, g \in ValidImages(arg.files) :
            (/\ g.name = ret.first.best
             /\ PriorityClass(f.name) = PriorityClass(g.name)
             /\ f.size = g.size)
            => Len(g.name) <= Len(f.name)

(***************************************************************************)
(* get_image_priority on the filenames the engine generates                *)
(***************************************************************************)
\* i+1 of line 361 written in decimal, for the first 99 links of a field
LinkNumbers ==
    {<<d>> : d \in Digits \ {"0"}}
    \cup {<<d, e>> : <<d, e>> \in (Digits \ {"0"}) \X Digits}

\* f'photo_link_{i+1}.jpg' of line 361
PhotoLinkNames == {KW_PHOTO_LINK_ \o n \o EXT_JPG : n \in LinkNumbers}

\* int(time.time()) of line 391 in decimal: one hundred instants between
\* 1700000000 and 1790900000
PriorityStamps ==
    {<<"1", "7", d, "0", e, "0", "0", "0", "0", "0">> : <<d, e>> \in Digits \X Digits}

\* the name line 391 gives a download whose cleaned name is empty
ImageStampNames == {StoredFilename(FN_BANG, stamp) : stamp \in PriorityStamps}

\* names that come from the remote record or were on disk
GivenNames == {FN_IMG2024, FN_REP1, FN_HOUSE, FN_HOUSE_UP, FN_PHOTO1, FN_SPACED}

InitPriority ==
    /\ pc = "priority"
    /\ arg \in PhotoLinkNames \cup ImageStampNames \cup GivenNames
    /\ ret = <<>>
    /\ faults = 0
    /\ api_key = TRUE
    /\ ImagesIdle
    /\ JobIdle

PriorityCall ==
    /\ pc = "priority"
    /\ ret' = get_image_priority(arg)
    /\ pc' = "priority_done"
    /\ UNCHANGED <<arg, faults, imgvars>>
    /\ UNCHANGED jobvars

NextPriority == PriorityCall

SpecPriority == InitPriority /\ [][NextPriority]_vars

\* C26: get_image_priority gives class 4 to every name the engine generates
\* for a download: photo_link_<n>.jpg and image_<timestamp>.jpg.
C26_GeneratedNamesRankLast ==
    (pc = "priority_done" /\ arg \in PhotoLinkNames \cup ImageStampNames)
    => ret[1] = 4

RECURSIVE Dedup(_, _)
\* a list of URLs with every URL after its first occurrence dropped
Dedup(urls, seen) ==
    IF urls = <<>> THEN <<>>
    ELSE IF Head(urls) \in seen THEN Dedup(Tail(urls), seen)
    ELSE <<Head(urls)>> \o Dedup(Tail(urls), seen \cup {Head(urls)})

HasUrl(attachment) == HasKey(attachment, "url") /\ Get(attachment, "url")[2] # ""

\* the URLs of the attachments of a record that have one, in field order
AttachmentUrls(fields) ==
    IF HasKey(fields, F_PHOTO) /\ IsArr(Get(fields, F_PHOTO))
    THEN LET with_url == SelectSeq(Get(fields, F_PHOTO)[2], HasUrl)
         IN  [k \in 1..Len(with_url) |-> Get(with_url[k], "url")[2]]
    ELSE <<>>

\* the links of a record that start with http, in field order
LinkUrls(fields) ==
    IF HasKey(fields, F_LINKS) /\ Get(fields, F_LINKS)[2] # ""
    THEN LET parts == SplitComma(CharsOf(Get(fields, F_LINKS)[2]), <<>>)
             links == [k \in 1..Len(parts) |-> strip(parts[k])]
             http == SelectSeq(links, StartsWithHttp)
         IN  [k \in 1..Len(http) |-> StrOf(http[k])]
    ELSE <<>>

C28_BreakdownDoesNotGate ==
    (/\ pc = "detect_done"
     /\ HasPrevious(arg[1])
     /\ calculate_data_hash(load_previous_data(arg[1])) # calculate_data_hash(Arr(arg[2])))
    => /\ ret.was_updated
       /\ ret.file = Doc(Arr(arg[2]))
       /\ ret.record_count = Len(arg[2])
       /\ ret.final_count = Len(arg[2])
       /\ ret.changes = ret.added_count + ret.removed_count + ret.modified_count

\* the two stored records were fetched in the other order: no record added,
\* removed or modified, and the snapshot rewritten in the new order
C28_Witness ==
    /\ pc = "detect_done"
    /\ HasPrevious(arg[1])
    /\ Len(arg[2]) = 2
    /\ load_previous_data(arg[1])[2] = <<arg[2][2], arg[2][1]>>
    /\ ret.added_count = 0 /\ ret.removed_count = 0 /\ ret.modified_count = 0
    /\ ret.changes = 0
    /\ ret.was_updated
    /\ ret.file = Doc(Arr(arg[2]))
    /\ ret.file # arg[1]

(***************************************************************************)
(* Two instances of the job downloading the image of one record            *)
(***************************************************************************)
\* Both instances have received a 200 answer for the record (line 411) and
\* store under the same image_path.  The directory maps names to inodes; an
\* open file keeps its inode whatever happens to the name.  pc gives each
\* instance its position, arg the payload each instance receives, ret the
\* directory, the inodes and each instance's file object.
Procs == {1, 2}

\* chunks of 8192 bytes in a payload
RaceChunks == 2

RACE_FINAL == FN_IMG2024

PayloadVersions == {"v1", "v2"}

\* the whole payload of instance p, chunk by chunk
Complete(p) == [k \in 1..RaceChunks |-> <<arg[p], k>>]

InodeOf(names, name) ==
    IF \E e \in names : e.name = name
    THEN (CHOOSE e \in names : e.name = name).inode
    ELSE 0

Unbind(names, name) == {e \in names : e.name # name}

Bind(names, name, inode) == Unbind(names, name) \cup {[name |-> name, inode |-> inode]}

\* a write of one chunk at position k of a file: a gap before k reads as a hole
WriteAt(content, k, chunk) ==
    [i \in 1..(IF Len(content) > k THEN Len(content) ELSE k) |->
        IF i = k THEN chunk
        ELSE IF i <= Len(content) THEN content[i]
        ELSE <<"hole", i>>]

InitRace ==
    /\ pc = [p \in Procs |-> "open"]
    /\ arg \in [Procs -> PayloadVersions]
    /\ ret = [names |-> {}, inodes |-> <<>>,
              file |-> [p \in Procs |-> [fd |-> 0, pos |-> 0]]]
    /\ faults = 0
    /\ api_key = TRUE
    /\ ImagesIdle
    /\ JobIdle

\* line 413 and line 415: open(temp_path, 'wb') creates the file, or
\* truncates the one that is there
RaceOpen(p) ==
    /\ pc[p] = "open"
    /\ LET temp_path == TempName(RACE_FINAL)
           there == InodeOf(ret.names, temp_path)
           inode == IF there = 0 THEN Len(ret.inodes) + 1 ELSE there
       IN  ret' = [names |-> Bind(ret.names, temp_path, inode),
                   inodes |-> IF there = 0 THEN Append(ret.inodes, <<>>)
                              ELSE [ret.inodes EXCEPT ![there] = <<>>],
                   file |-> [ret.file EXCEPT ![p] = [fd |-> inode, pos |-> 0]]]
    /\ pc' = [pc EXCEPT ![p] = "write"]
    /\ UNCHANGED <<arg, faults, imgvars, jobvars>>

\* lines 416-417: one chunk is written at the position of the file object,
\* or iter_content raises (caught at line 445)
RaceWrite(p) ==
    /\ pc[p] = "write"
    /\ \/ /\ ret' = [ret EXCEPT
                        !.inodes[ret.file[p].fd] =
                            WriteAt(@, ret.file[p].pos + 1, <<arg[p], ret.file[p].pos + 1>>),
                        !.file[p].pos = @ + 1]
          /\ pc' = [pc EXCEPT ![p] = IF ret.file[p].pos + 1 = RaceChunks THEN "size"
                                     ELSE "write"]
          /\ UNCHANGED faults
       \/ /\ faults < MaxFaults
          /\ faults' = faults + 1
          /\ pc' = [pc EXCEPT ![p] = "failed"]
          /\ UNCHANGED ret
    /\ UNCHANGED <<arg, imgvars, jobvars>>

\* line 420: os.path.getsize(temp_path) reads the size of whatever the name
\* is bound to now, and raises when the name is gone
RaceSize(p) ==
    /\ pc[p] = "size"
    /\ LET there == InodeOf(ret.names, TempName(RACE_FINAL))
       IN  pc' = [pc EXCEPT ![p] =
                     IF there = 0 THEN "failed"
                     ELSE IF Len(ret.inodes[there]) * ChunkBytes > MinImageBytes THEN "rename"
                     ELSE "remove"]
    /\ UNCHANGED <<arg, ret, faults, imgvars, jobvars>>

\* line 422: os.rename(temp_path, image_path)
RaceRename(p) ==
    /\ pc[p] = "rename"
    /\ LET temp_path == TempName(RACE_FINAL)
           there == InodeOf(ret.names, temp_path)
       IN  IF there = 0
           THEN pc' = [pc EXCEPT ![p] = "failed"] /\ UNCHANGED ret
           ELSE /\ ret' = [ret EXCEPT !.names = Bind(Unbind(@, temp_path), RACE_FINAL, there)]
                /\ pc' = [pc EXCEPT ![p] = "stored"]
    /\ UNCHANGED <<arg, faults, imgvars, jobvars>>

\* line 438: os.remove(temp_path) of a payload found too small
RaceRemove(p) ==
    /\ pc[p] = "remove"
    /\ ret' = [ret EXCEPT !.names = Unbind(@, TempName(RACE_FINAL))]
    /\ pc' = [pc EXCEPT ![p] = "failed"]
    /\ UNCHANGED <<arg, faults, imgvars, jobvars>>

NextRace ==
    \E p \in Procs :
        \/ RaceOpen(p)
        \/ RaceWrite(p)
        \/ RaceSize(p)
        \/ RaceRename(p)
        \/ RaceRemove(p)

SpecRace == InitRace /\ [][NextRace]_vars

\* what the final filename holds is the whole payload of no instance
FinalIsNoDownload ==
    /\ InodeOf(ret.names, RACE_FINAL) # 0
    /\ \A p \in Procs : ret.inodes[InodeOf(ret.names, RACE_FINAL)] # Complete(p)

\* C29: the final image filename holds something else than the complete
\* download of an instance only once both instances have opened the one
\* temporary path; an instance alone never shows such a file.
C29_RaceOnTemporaryPath ==
    FinalIsNoDownload => \A p \in Procs : pc[p] # "open"

\* both instances receive the same payload and nothing fails: instance 1
\* has renamed the temporary file into place while it holds one chunk
\* written by instance 2 after its truncating open
C29_Witness ==
    /\ FinalIsNoDownload
    /\ faults = 0
    /\ arg[1] = arg[2]
    /\ pc[1] = "stored"
    /\ pc[2] = "write"
    /\ ret.file[1].fd = ret.file[2].fd
    /\ InodeOf(ret.names, RACE_FINAL) = ret.file[2].fd
    /\ Len(ret.inodes[ret.file[2].fd]) < RaceChunks

\* this run has compared the view 'all', found it changed and saved it
AllRewritten == handed["all"].compared /\ "all" \in written

\* C30: the image stage is entered from the gate after the loop over the
\* views only, and the gate enters it exactly when this run has rewritten
\* the snapshot of 'all' and fetched at least one record for it, handing it
\* the records fetched for 'all' in this run; what happened to the other
\* views does not count.
C30_ImageStageGating ==
    [][/\ (pc' = "img_begin" /\ pc # "img_begin") => pc = "images_gate"
       /\ pc = "images_gate" =>
             /\ pc' = "img_begin" <=> (AllRewritten /\ handed["all"].list # <<>>)
             /\ pc' = "img_begin" => records' = handed["all"].list
             /\ pc' \in {"img_begin", "job_meta"}]_vars

\* a second run has rewritten 'all' and enters the image stage with the two
\* records of its two pages
C30_Witness ==
    /\ pc = "img_begin"
    /\ run = 2
    /\ AllRewritten
    /\ Len(remote["all"]) = 2
    /\ records = handed["all"].list
    /\ Len(records) = 2

=============================================================================
